---- MODULE Spec2Model ----
(***************************************************************************)
(* A model of PlayerAlgorithm (src/your_algo.py), the market-making bot of *)
(* the QFinProject simulation: its order-id counter, its ledger of open    *)
(* resting orders, its positions, and the quotes send_messages computes.   *)
(*                                                                         *)
(* Prices are Python floats in the source.  Here a price is an integer     *)
(* number of sixteenths (Unit = 16 is 1.0), and the intermediate values of *)
(* the quote (skew, raw price, raw price / tick) are exact fractions       *)
(* num/den.  All book prices and tick sizes of the model are multiples of  *)
(* 1/16 and position limits are integers, so every value that decides a    *)
(* rounding tie is exactly representable in binary floating point and the  *)
(* float computation of the source gives the same quotes.                  *)
(***************************************************************************)
EXTENDS Integers, Sequences, FiniteSets, TLC

VARIABLES
    products,       \* self.products: the list handed to __init__
    timestamp_num,  \* self.timestamp_num
    idx,            \* self.idx
    open_orders,    \* self.open_orders: order_id -> <<direction, size, price>>
    position,       \* self.position: ticker -> net position
    pos_limits,     \* self.pos_limits: ticker -> limit (or inf)
    mpv,            \* self.mpv: ticker -> tick size
    messages,       \* the list returned by the last call (<<>> when it returned None)
    call,           \* history: the last call and its argument
    emitted,        \* history: order ids of all ORDER messages, in emission order
    seeded,         \* history: the set_idx calls made, each with the tick it came at
    nTrades         \* history: number of trades processed so far

vars == <<products, timestamp_num, idx, open_orders, position, pos_limits, mpv,
          messages, call, emitted, seeded, nTrades>>

----------------------------------------------------------------------------
(* Bounds of the model. *)

\* send_messages is called at most MaxTicks times in a session.
MaxTicks == 2
\* At most MaxTrades trades are reported to process_trades in a session.
MaxTrades == 1
\* The quoting sessions start from positions between -MaxPos and MaxPos.
MaxPos == 9

----------------------------------------------------------------------------
(* Values. *)

\* 1.0 as a price: prices are counted in sixteenths.
Unit == 16

\* Optional and extended numbers: None, a number, float("inf").
None == [kind |-> "none", val |-> 0]
Num(n) == [kind |-> "num", val |-> n]
Inf == [kind |-> "inf", val |-> 0]

\* Python truthiness of an optional number: None and 0 are falsy.
Truthy(x) == x.kind = "inf" \/ (x.kind = "num" /\ x.val # 0)

Directions == {"Buy", "Sell"}

\* self.name
name == "MarketMakerBot"
\* Parameters controlling quoting behaviour.
base_spread == 1 * Unit
skew_factor == Unit \div 2
default_price == 1000 * Unit
default_order_size == 5

\* The names a trade can carry: this bot's and another participant's.
BotNames == {name, "OtherBot"}

\* Product(ticker, pos_limit, mpv)
Product(t, l, m) == [ticker |-> t, pos_limit |-> l, mpv |-> m]

\* The product lists a session is constructed with: position limits that are
\* positive, absent, negative and zero; tick sizes 0.5, absent (1.0), 0.25.
ProductLists ==
    { << Product("UEC", Num(8), Num(Unit \div 2)), Product("SOBER", None, None) >>,
      << Product("UEC", Num(-8), Num(Unit \div 4)), Product("SOBER", Num(0), Num(Unit \div 2)) >> }

\* The starting order ids the exchange hands to set_idx.
Seeds == {3}

\* Sizes of the trades the exchange reports.
TradeSizes == {3}

\* Rest(price, size): a resting order of the book.
Rest(p, s) == [price |-> p, size |-> s]

\* The sides a book can show for a ticker, best price first.
BidSides == { <<>>, << Rest(99 * Unit + Unit \div 2, 2), Rest(99 * Unit, 1) >> }
AskSides == { <<>>, << Rest(102 * Unit, 1), Rest(103 * Unit, 3) >> }

Tickers == { products[i].ticker : i \in 1..Len(products) }

\* dict.get(key, default)
Get(d, k, default) == IF k \in DOMAIN d THEN d[k] ELSE default

\* d with key k deleted.
Del(d, k) == [ j \in DOMAIN d \ {k} |-> d[j] ]

\* d with d[k] = v assigned.
Put(d, k, v) == [ j \in DOMAIN d \cup {k} |-> IF j = k THEN v ELSE d[j] ]

\* The empty dict.
EmptyDict == [ j \in {} |-> 0 ]

\* The books send_messages is called with: the book with no ticker at all,
\* and the books in which every ticker shows the same two sides.
Books ==
    {EmptyDict} \cup
    { [ t \in Tickers |-> [Bids |-> b, Asks |-> a] ] : b \in BidSides, a \in AskSides }

Min(S) == CHOOSE x \in S : \A y \in S : x <= y
Max(S) == CHOOSE x \in S : \A y \in S : x >= y
Abs(x) == IF x < 0 THEN -x ELSE x

----------------------------------------------------------------------------
(* Messages. *)

\* Order(ticker, price, size, order_id, agg_dir, bot_name)
Order(ticker, price, size, order_id, agg_dir, bot_name) ==
    [ticker |-> ticker, price |-> price, size |-> size, order_id |-> order_id,
     agg_dir |-> agg_dir, bot_name |-> bot_name]

\* Msg(type, message)
Msg(type, message) == [type |-> type, message |-> message]

\* create_order without its `self.idx += 1`.
create_order_NoIncrement(i, ticker, size, price, direction) ==
    [message |-> Msg("ORDER", Order(ticker, price, size, i, direction, name)),
     idx |-> i]

\* create_order advancing the counter by two.
create_order_SkipsId(i, ticker, size, price, direction) ==
    [message |-> Msg("ORDER", Order(ticker, price, size, i, direction, name)),
     idx |-> i + 2]

\* create_order, called when self.idx = i: the message it returns and the
\* value it leaves in self.idx.
create_order(i, ticker, size, price, direction) ==
    [message |-> Msg("ORDER", Order(ticker, price, size, i, direction, name)),
     idx |-> i + 1]

\* remove_order
remove_order(order_idx) == Msg("REMOVE", order_idx)

----------------------------------------------------------------------------
(* Exact arithmetic for the float expressions of send_messages. *)

F(n, d) == [num |-> n, den |-> d]
FInt(n) == F(n, 1)
FSub(a, b) == F(a.num * b.den - b.num * a.den, a.den * b.den)
FAdd(a, b) == F(a.num * b.den + b.num * a.den, a.den * b.den)
FMul(a, b) == F(a.num * b.num, a.den * b.den)
FDiv(a, b) == F(a.num * b.den, a.den * b.num)
\* a > b
FGt(a, b) ==
    LET sa == IF a.den < 0 THEN -1 ELSE 1
        sb == IF b.den < 0 THEN -1 ELSE 1
    IN  sa * a.num * sb * b.den > sb * b.num * sa * a.den

\* Rounding to the nearest integer with a tie going up.
round_HalfUp(x) ==
    LET n == IF x.den < 0 THEN -x.num ELSE x.num
        d == Abs(x.den)
        q == n \div d
        r == n % d
    IN  IF 2 * r < d THEN q ELSE q + 1

\* Python's round(x) of a float: the nearest integer, a tie going to the
\* even one.
round(x) ==
    LET n == IF x.den < 0 THEN -x.num ELSE x.num
        d == Abs(x.den)
        q == n \div d
        r == n % d
    IN  IF 2 * r < d THEN q
        ELSE IF 2 * r > d THEN q + 1
        ELSE IF q % 2 = 0 THEN q ELSE q + 1

----------------------------------------------------------------------------
(* The quote of one product (the body of the loop of send_messages). *)

\* book.get(ticker, {}).get(side, [])
BookSide(book, ticker, side) ==
    IF ticker \in DOMAIN book THEN book[ticker][side] ELSE <<>>

\* The reference price without the one-sided rules: the mid when both sides
\* are there, default_price otherwise.
MidPrice_NoOneSided(book, ticker) ==
    LET bids == BookSide(book, ticker, "Bids")
        asks == BookSide(book, ticker, "Asks")
    IN  IF bids # <<>> /\ asks # <<>>
          THEN FDiv(FInt(bids[1].price + asks[1].price), FInt(2))
        ELSE FInt(default_price)

\* The reference price: mid of the best bid and ask, else the side there
\* is, else default_price.
MidPrice(book, ticker) ==
    LET bids == BookSide(book, ticker, "Bids")
        asks == BookSide(book, ticker, "Asks")
    IN  IF bids # <<>> /\ asks # <<>>
          THEN FDiv(FInt(bids[1].price + asks[1].price), FInt(2))
        ELSE IF bids # <<>> THEN FInt(bids[1].price)
        ELSE IF asks # <<>> THEN FInt(asks[1].price)
        ELSE FInt(default_price)

\* The skew without skew_factor: pos / limit.
Skew_NoFactor(pos, limit) ==
    IF Truthy(limit) /\ limit # Inf
      THEN FMul(FDiv(FInt(pos), FInt(limit.val)), FInt(Unit))
      ELSE FInt(0)

\* The position-based skew: (pos / limit) * skew_factor when the limit is
\* truthy and not inf, else 0.0.
Skew(pos, limit) ==
    IF Truthy(limit) /\ limit # Inf
      THEN FMul(FDiv(FInt(pos), FInt(limit.val)), FInt(skew_factor))
      ELSE FInt(0)

\* round(price / tick) * tick
RoundToTick(price, tick) == round(FDiv(price, FInt(tick))) * tick

\* The size policy with both thresholds taken at, not above, 80 % and 90 %
\* of the limit.
OrderSize_AtThreshold(pos, limit) ==
    IF limit # Inf /\ limit.kind = "num" /\ limit.val > 0
      THEN LET s1 == IF ~ FGt(FMul(F(8, 10), FInt(limit.val)), FInt(Abs(pos)))
                       THEN Max({1, default_order_size \div 2})
                       ELSE default_order_size
           IN  IF ~ FGt(FMul(F(9, 10), FInt(limit.val)), FInt(Abs(pos)))
                 THEN 1
                 ELSE s1
      ELSE default_order_size

\* The order size: default_order_size, halved (at least 1) above 80 % of a
\* positive finite limit, 1 above 90 % of it.
OrderSize(pos, limit) ==
    IF limit # Inf /\ limit.kind = "num" /\ limit.val > 0
      THEN LET s1 == IF FGt(FInt(Abs(pos)), FMul(F(8, 10), FInt(limit.val)))
                       THEN Max({1, default_order_size \div 2})
                       ELSE default_order_size
           IN  IF FGt(FInt(Abs(pos)), FMul(F(9, 10), FInt(limit.val)))
                 THEN 1
                 ELSE s1
      ELSE default_order_size

\* A quote whose size also depends on the tick counter: one more on every
\* odd turn.
Quote_ByTurn(book, ticker) ==
    LET mid == MidPrice(book, ticker)
        pos == Get(position, ticker, 0)
        limit == Get(pos_limits, ticker, Inf)
        skew == Skew(pos, limit)
        half_spread == FDiv(FInt(base_spread), FInt(2))
        raw_buy == FSub(FSub(mid, half_spread), skew)
        raw_sell == FSub(FAdd(mid, half_spread), skew)
        tick == Get(mpv, ticker, Unit)
    IN  [mid |-> mid, skew |-> skew, raw_buy |-> raw_buy, raw_sell |-> raw_sell,
         tick |-> tick,
         buy_price |-> RoundToTick(raw_buy, tick),
         sell_price |-> RoundToTick(raw_sell, tick),
         size |-> OrderSize(pos, limit) + (timestamp_num % 2)]

\* The quote send_messages computes for a ticker from the book and the
\* bot's state: mid, skew, the two raw prices, the two tick-aligned prices
\* and the size.
Quote(book, ticker) ==
    LET mid == MidPrice(book, ticker)
        pos == Get(position, ticker, 0)
        limit == Get(pos_limits, ticker, Inf)
        skew == Skew(pos, limit)
        half_spread == FDiv(FInt(base_spread), FInt(2))
        raw_buy == FSub(FSub(mid, half_spread), skew)
        raw_sell == FSub(FAdd(mid, half_spread), skew)
        tick == Get(mpv, ticker, Unit)
    IN  [mid |-> mid, skew |-> skew, raw_buy |-> raw_buy, raw_sell |-> raw_sell,
         tick |-> tick,
         buy_price |-> RoundToTick(raw_buy, tick),
         sell_price |-> RoundToTick(raw_sell, tick),
         size |-> OrderSize(pos, limit)]

----------------------------------------------------------------------------
(* The calls. *)

\* The history record of a call: its name and its argument.
Call(op, i, book, trades) == [op |-> op, idx |-> i, book |-> book, trades |-> trades]

\* The keys of a dict in iteration order.  open_orders is emptied by every
\* send_messages and then filled with the ids idx, idx+1, ... as they are
\* issued, and is otherwise only deleted from, so insertion order is
\* ascending id order.
RECURSIVE Keys(_)
Keys(d) ==
    IF DOMAIN d = {} THEN <<>>
    ELSE LET k == Min(DOMAIN d) IN <<k>> \o Keys(Del(d, k))

\* __init__(products)
Init ==
    /\ products \in ProductLists
    /\ timestamp_num = 0
    /\ idx = 0
    /\ open_orders = EmptyDict
    /\ position = [ t \in Tickers |-> 0 ]
    /\ pos_limits =
          [ t \in Tickers |->
              LET p == CHOOSE q \in { products[i] : i \in 1..Len(products) } : q.ticker = t
              IN  IF p.pos_limit # None THEN p.pos_limit ELSE Inf ]
    /\ mpv =
          [ t \in Tickers |->
              LET p == CHOOSE q \in { products[i] : i \in 1..Len(products) } : q.ticker = t
              IN  IF Truthy(p.mpv) THEN p.mpv.val ELSE Unit ]
    /\ messages = <<>>
    /\ call = Call("__init__", 0, EmptyDict, <<>>)
    /\ emitted = <<>>
    /\ seeded = <<>>
    /\ nTrades = 0

\* set_idx(i).  The exchange makes this call once in a session (at most:
\* self.idx starts at 0 without it); the model lets it come at any point,
\* not only before the first send_messages.
SetIdx(i) ==
    /\ seeded = <<>>
    /\ idx' = i
    /\ messages' = <<>>
    /\ call' = Call("set_idx", i, EmptyDict, <<>>)
    /\ seeded' = Append(seeded, [idx |-> i, tick |-> timestamp_num])
    /\ UNCHANGED <<products, timestamp_num, open_orders, position, pos_limits, mpv,
                   emitted, nTrades>>

\* The cancel loop without its `del self.open_orders[order_id]`.
CancelAll_KeepsOrders(st) ==
    LET ks == Keys(st.open_orders)
    IN  [st EXCEPT !.messages = st.messages \o [ i \in 1..Len(ks) |-> remove_order(ks[i]) ]]

\* The cancel loop of send_messages: one REMOVE per open order, each deleted.
CancelAll(st) ==
    LET ks == Keys(st.open_orders)
    IN  [st EXCEPT !.messages = st.messages \o [ i \in 1..Len(ks) |-> remove_order(ks[i]) ],
                   !.open_orders = EmptyDict]

\* One turn of the product loop creating the Sell order before the Buy.
PlaceQuote_SellFirst(st, book, ticker) ==
    LET q == Quote(book, ticker)
        sell == create_order(st.idx, ticker, q.size, q.sell_price, "Sell")
        buy == create_order(sell.idx, ticker, q.size, q.buy_price, "Buy")
        withSell == Put(st.open_orders, sell.message.message.order_id,
                        <<"Sell", q.size, q.sell_price>>)
    IN  [idx |-> buy.idx,
         messages |-> st.messages \o <<sell.message, buy.message>>,
         open_orders |-> Put(withSell, buy.message.message.order_id,
                             <<"Buy", q.size, q.buy_price>>)]

\* One turn of the product loop recording each order under the value of
\* self.idx after create_order instead of the id in the message.
PlaceQuote_RecordsCounter(st, book, ticker) ==
    LET q == Quote(book, ticker)
        buy == create_order(st.idx, ticker, q.size, q.buy_price, "Buy")
        sell == create_order(buy.idx, ticker, q.size, q.sell_price, "Sell")
        withBuy == Put(st.open_orders, buy.idx, <<"Buy", q.size, q.buy_price>>)
    IN  [idx |-> sell.idx,
         messages |-> st.messages \o <<buy.message, sell.message>>,
         open_orders |-> Put(withBuy, sell.idx, <<"Sell", q.size, q.sell_price>>)]

\* One turn of the product loop recording the base size instead of the size
\* of the order.
PlaceQuote_RecordsBaseSize(st, book, ticker) ==
    LET q == Quote(book, ticker)
        buy == create_order(st.idx, ticker, q.size, q.buy_price, "Buy")
        sell == create_order(buy.idx, ticker, q.size, q.sell_price, "Sell")
        withBuy == Put(st.open_orders, buy.message.message.order_id,
                       <<"Buy", default_order_size, q.buy_price>>)
    IN  [idx |-> sell.idx,
         messages |-> st.messages \o <<buy.message, sell.message>>,
         open_orders |-> Put(withBuy, sell.message.message.order_id,
                             <<"Sell", default_order_size, q.sell_price>>)]

\* One turn of the product loop of send_messages: a Buy and a Sell order for
\* the ticker, each recorded in open_orders under its id.
PlaceQuote(st, book, ticker) ==
    LET q == Quote(book, ticker)
        buy == create_order(st.idx, ticker, q.size, q.buy_price, "Buy")
        sell == create_order(buy.idx, ticker, q.size, q.sell_price, "Sell")
        withBuy == Put(st.open_orders, buy.message.message.order_id,
                       <<"Buy", q.size, q.buy_price>>)
    IN  [idx |-> sell.idx,
         messages |-> st.messages \o <<buy.message, sell.message>>,
         open_orders |-> Put(withBuy, sell.message.message.order_id,
                             <<"Sell", q.size, q.sell_price>>)]

\* The product loop of send_messages from product i on.
RECURSIVE PlaceQuotes(_, _, _)
PlaceQuotes(st, book, i) ==
    IF i > Len(products) THEN st
    ELSE PlaceQuotes(PlaceQuote(st, book, products[i].ticker), book, i + 1)

\* The order ids of the ORDER messages of a message list, in order.
RECURSIVE OrderIds(_)
OrderIds(ms) ==
    IF ms = <<>> THEN <<>>
    ELSE (IF Head(ms).type = "ORDER" THEN <<Head(ms).message.order_id>> ELSE <<>>)
         \o OrderIds(Tail(ms))

\* send_messages writing the positions off as it refreshes the quotes.
SendMessages_ResetsPosition(book) ==
    /\ timestamp_num < MaxTicks
    /\ \E st \in { PlaceQuotes(CancelAll([idx |-> idx, messages |-> <<>>,
                                            open_orders |-> open_orders]), book, 1) } :
           /\ idx' = st.idx
           /\ open_orders' = st.open_orders
           /\ messages' = st.messages
           /\ emitted' = emitted \o OrderIds(st.messages)
    /\ timestamp_num' = timestamp_num + 1
    /\ call' = Call("send_messages", 0, book, <<>>)
    /\ position' = [ t \in DOMAIN position |-> 0 ]
    /\ UNCHANGED <<products, pos_limits, mpv, seeded, nTrades>>

\* send_messages(book)
SendMessages(book) ==
    /\ timestamp_num < MaxTicks
    /\ \E st \in { PlaceQuotes(CancelAll([idx |-> idx, messages |-> <<>>,
                                            open_orders |-> open_orders]), book, 1) } :
           /\ idx' = st.idx
           /\ open_orders' = st.open_orders
           /\ messages' = st.messages
           /\ emitted' = emitted \o OrderIds(st.messages)
    /\ timestamp_num' = timestamp_num + 1
    /\ call' = Call("send_messages", 0, book, <<>>)
    /\ UNCHANGED <<products, position, pos_limits, mpv, seeded, nTrades>>

\* The aggressor branch adding the size whatever the direction.
AggressorDelta_AlwaysAdds(trade) == trade.size

\* The resting branch taking the aggressor's side for the bot's own.
RestingDelta_AggressorSide(trade) ==
    IF trade.agg_dir = "Buy" THEN trade.size ELSE - trade.size

\* The change of position[ticker] in the aggressor branch: + size for an
\* aggressive Buy, - size otherwise.
AggressorDelta(trade) == IF trade.agg_dir = "Buy" THEN trade.size ELSE - trade.size

\* The change of position[ticker] in the resting branch: the bot's side is
\* the opposite of the aggressor's.
RestingDelta(trade) == IF trade.agg_dir = "Buy" THEN - trade.size ELSE trade.size

\* if order_id in self.open_orders: del self.open_orders[order_id]
Discard(orders, order_id) ==
    IF order_id \in DOMAIN orders THEN Del(orders, order_id) ELSE orders

\* The aggressor branch acting only when the aggressor order is open.
AggressorBranch_KnownOnly(st, trade) ==
    IF trade.agg_bot = name /\ trade.agg_order_id \in DOMAIN st.open_orders
      THEN [position |-> Put(st.position, trade.ticker,
                             Get(st.position, trade.ticker, 0) + AggressorDelta(trade)),
            open_orders |-> Discard(st.open_orders, trade.agg_order_id)]
      ELSE st

\* The aggressor branch of the loop of process_trades, on the pair
\* (position, open_orders).
AggressorBranch(st, trade) ==
    IF trade.agg_bot = name
      THEN [position |-> Put(st.position, trade.ticker,
                             Get(st.position, trade.ticker, 0) + AggressorDelta(trade)),
            open_orders |-> Discard(st.open_orders, trade.agg_order_id)]
      ELSE st

\* The resting branch taken for every trade, whoever its resting party is.
RestingBranch_AnyBot(st, trade) ==
    [position |-> Put(st.position, trade.ticker,
                      Get(st.position, trade.ticker, 0) + RestingDelta(trade)),
     open_orders |-> Discard(st.open_orders, trade.rest_order_id)]

\* The resting branch of the loop of process_trades.
RestingBranch(st, trade) ==
    IF trade.rest_bot = name
      THEN [position |-> Put(st.position, trade.ticker,
                             Get(st.position, trade.ticker, 0) + RestingDelta(trade)),
            open_orders |-> Discard(st.open_orders, trade.rest_order_id)]
      ELSE st

\* The loop body taking the resting branch only when the aggressor branch
\* was not taken (elif for the second if).
ApplyTrade_OneRole(st, trade) ==
    IF trade.agg_bot = name THEN AggressorBranch(st, trade)
    ELSE RestingBranch(st, trade)

\* The body of the loop of process_trades for one trade: the aggressor
\* branch, then the resting branch.
ApplyTrade(st, trade) == RestingBranch(AggressorBranch(st, trade), trade)

\* The loop of process_trades over the trades from the i-th on.
RECURSIVE ApplyTrades(_, _, _)
ApplyTrades(st, trades, i) ==
    IF i > Len(trades) THEN st
    ELSE ApplyTrades(ApplyTrade(st, trades[i]), trades, i + 1)

\* The pairs <<agg_order_id, rest_order_id>> a reported trade names: two
\* ids that are not open (1000 and 1001 above the counter, ids of orders
\* never tracked or already removed), and, when orders are open, the oldest
\* and the newest of them.
TradeOrderIds ==
    { <<idx + 1000, idx + 1001>> } \cup
    ( IF DOMAIN open_orders = {} THEN {}
      ELSE { <<Min(DOMAIN open_orders), Max(DOMAIN open_orders)>> } )

\* Trade(ticker, size, agg_bot, rest_bot, agg_dir, agg_order_id, rest_order_id)
Trades ==
    { [ticker |-> t, size |-> s, agg_bot |-> a, rest_bot |-> r, agg_dir |-> d,
       agg_order_id |-> ids[1], rest_order_id |-> ids[2]] :
        t \in Tickers, s \in TradeSizes, a \in BotNames, r \in BotNames,
        d \in Directions, ids \in TradeOrderIds }

\* The trade lists process_trades is called with.
TradeLists == UNION { [ 1..n -> Trades ] : n \in 0..(MaxTrades - nTrades) }

\* process_trades(trades)
ProcessTrades(trades) ==
    /\ \E st \in { ApplyTrades([position |-> position, open_orders |-> open_orders],
                                trades, 1) } :
           /\ position' = st.position
           /\ open_orders' = st.open_orders
    /\ messages' = <<>>
    /\ call' = Call("process_trades", 0, EmptyDict, trades)
    /\ nTrades' = nTrades + Len(trades)
    /\ UNCHANGED <<products, timestamp_num, idx, pos_limits, mpv, emitted, seeded>>

Next ==
    \/ \E i \in Seeds : SetIdx(i)
    \/ \E book \in Books : SendMessages(book)
    \/ \E trades \in TradeLists : ProcessTrades(trades)

Spec == Init /\ [][Next]_vars

----------------------------------------------------------------------------
(* Quoting sessions: the quote as a function of book, position and         *)
(* configuration, over positions up to and beyond the limits.              *)

\* The product lists of the quoting sessions: those above, and one with the
\* positive limits 10 (tick 1.0) and 100 (tick 0.25).
QuoteProductLists ==
    ProductLists \cup
    { << Product("UEC", Num(10), Num(Unit)), Product("SOBER", Num(100), Num(Unit \div 4)) >> }

\* The positions a quoting session starts from: every position up to MaxPos
\* either way, and the positions around 80 % and 90 % of the limit 100.
QuotePositions ==
    ((-MaxPos)..MaxPos) \cup { 79, 80, 81, 90, 91 } \cup { -79, -80, -81, -90, -91 }

\* The trades that settle position p in every instrument: for each, one
\* trade of |p| with the bot as aggressor, naming no open order.
SettlingTrades(p) ==
    IF p = 0 THEN <<>>
    ELSE [ j \in 1..Len(products) |->
             [ticker |-> products[j].ticker, size |-> Abs(p), agg_bot |-> name,
              rest_bot |-> "OtherBot", agg_dir |-> IF p > 0 THEN "Buy" ELSE "Sell",
              agg_order_id |-> 1000, rest_order_id |-> 1001] ]

\* __init__(products) followed by process_trades(SettlingTrades(p)).
InitQuote ==
    /\ products \in QuoteProductLists
    /\ timestamp_num = 0
    /\ idx = 0
    /\ open_orders = EmptyDict
    /\ \E p \in QuotePositions :
          /\ position = ApplyTrades([position |-> [ t \in Tickers |-> 0 ],
                                     open_orders |-> EmptyDict],
                                    SettlingTrades(p), 1).position
          /\ call = Call("process_trades", 0, EmptyDict, SettlingTrades(p))
          /\ nTrades = Len(SettlingTrades(p))
    /\ pos_limits =
          [ t \in Tickers |->
              LET q == CHOOSE r \in { products[i] : i \in 1..Len(products) } : r.ticker = t
              IN  IF q.pos_limit # None THEN q.pos_limit ELSE Inf ]
    /\ mpv =
          [ t \in Tickers |->
              LET q == CHOOSE r \in { products[i] : i \in 1..Len(products) } : r.ticker = t
              IN  IF Truthy(q.mpv) THEN q.mpv.val ELSE Unit ]
    /\ messages = <<>>
    /\ emitted = <<>>
    /\ seeded = <<>>

NextQuote ==
    \/ \E i \in Seeds : SetIdx(i)
    \/ \E book \in Books : SendMessages(book)

SpecQuote == InitQuote /\ [][NextQuote]_vars

----------------------------------------------------------------------------
(* What the claims speak of. *)

\* The number of instruments.
M == Len(products)

Range(seq) == { seq[i] : i \in 1..Len(seq) }

\* set_idx has been called exactly once, and before the first send_messages.
SeededOnceFirst == Len(seeded) = 1 /\ seeded[1].tick = 0

\* The messages of a list that are of the given type, in order.
RECURSIVE OfType(_, _)
OfType(ms, type) ==
    IF ms = <<>> THEN <<>>
    ELSE (IF Head(ms).type = type THEN <<Head(ms)>> ELSE <<>>) \o OfType(Tail(ms), type)

\* The ledger (position, open_orders) when the i-th trade of the list handed
\* to process_trades is reached, the call starting from pos and open; with
\* i = Len(trades) + 1, the ledger the call leaves.
LedgerAt(pos, open, trades, i) ==
    ApplyTrades([position |-> pos, open_orders |-> open], SubSeq(trades, 1, i - 1), 1)

\* The bot is the aggressor of the trade and not its resting party.
AggressorOnly(trade) == trade.agg_bot = name /\ trade.rest_bot # name
\* The bot is the resting party of the trade and not its aggressor.
RestingOnly(trade) == trade.rest_bot = name /\ trade.agg_bot # name

\* The ledger before and after the i-th trade of the list handed to the
\* process_trades call of this step: for the first and the last trade, the
\* state the step starts from and the state it ends in.
Before(trades, i) ==
    IF i = 1 THEN [position |-> position, open_orders |-> open_orders]
    ELSE LedgerAt(position, open_orders, trades, i)
After(trades, i) ==
    IF i = Len(trades) THEN [position |-> position', open_orders |-> open_orders']
    ELSE LedgerAt(position, open_orders, trades, i + 1)

\* After a send_messages call: the Buy and the Sell order it emitted for the
\* j-th instrument (the ORDER messages are the last 2 * M of the list).
BuyOrder(j) == messages[Len(messages) - 2 * M + 2 * j - 1].message
SellOrder(j) == messages[Len(messages) - 2 * M + 2 * j].message

\* Every order of `before` but the one with the given id is in `after`,
\* unchanged, and `after` holds nothing else.
OthersKept(before, after, order_id) ==
    /\ DOMAIN after = DOMAIN before \ {order_id}
    /\ \A k \in DOMAIN after : after[k] = before[k]

----------------------------------------------------------------------------
(* C1 *)

\* C1: when set_idx was called once, before the first send_messages, the
\* order ids of the ORDER messages emitted so far, over all send_messages
\* calls and whatever process_trades calls came between them, are strictly
\* increasing in emission order (hence pairwise distinct: no id is reused).
C1_IdsStrictlyIncreasing ==
    SeededOnceFirst =>
        \A i, j \in 1..Len(emitted) : i < j => emitted[i] < emitted[j]

\* Two send_messages calls with a trade processed in the session, seeded as
\* documented: 4 * M order ids have been emitted.
C1_Witness ==
    /\ SeededOnceFirst
    /\ timestamp_num = 2
    /\ nTrades >= 1
    /\ Len(emitted) = 4 * M

----------------------------------------------------------------------------
(* C2 *)

\* C2: right after every send_messages call, whatever was open before it,
\* open_orders holds exactly 2 * M entries and they are exactly the ids of
\* the ORDER messages the call returned; and when the call before it was a
\* send_messages too, the size is unchanged and none of the earlier call's
\* ids is left.
C2_OpenOrdersReplaced ==
    [][ call'.op = "send_messages" =>
          /\ Cardinality(DOMAIN open_orders') = 2 * M
          /\ DOMAIN open_orders' = Range(OrderIds(messages'))
          /\ Len(OrderIds(messages')) = 2 * M
          /\ call.op = "send_messages" =>
                /\ Cardinality(DOMAIN open_orders') = Cardinality(DOMAIN open_orders)
                /\ DOMAIN open_orders' \cap DOMAIN open_orders = {} ]_vars

\* A second send_messages straight after the first, no trade in between:
\* 2 * M orders are open and the first call's ids are gone.
C2_Witness ==
    /\ call.op = "send_messages"
    /\ timestamp_num = 2
    /\ nTrades = 0
    /\ Len(seeded) = 0
    /\ Cardinality(DOMAIN open_orders) = 2 * M
    /\ \A i \in 1..(2 * M) : emitted[i] \notin DOMAIN open_orders

----------------------------------------------------------------------------
(* C3 *)

\* C3: the list send_messages returns is one REMOVE message for each order
\* id that was open when the call began, each once, followed by exactly
\* 2 * M ORDER messages: for each instrument in construction order a Buy
\* order and then a Sell order for its ticker.  No REMOVE follows an ORDER.
C3_CancelsThenOrders ==
    [][ call'.op = "send_messages" =>
          LET k == Cardinality(DOMAIN open_orders)
              ms == messages'
          IN  /\ Len(ms) = k + 2 * M
              /\ \A i \in 1..k : ms[i].type = "REMOVE"
              /\ \A id \in DOMAIN open_orders :
                    Cardinality({ i \in 1..k : ms[i].message = id }) = 1
              /\ \A j \in 1..M :
                    /\ ms[k + 2 * j - 1].type = "ORDER"
                    /\ ms[k + 2 * j - 1].message.ticker = products[j].ticker
                    /\ ms[k + 2 * j - 1].message.agg_dir = "Buy"
                    /\ ms[k + 2 * j].type = "ORDER"
                    /\ ms[k + 2 * j].message.ticker = products[j].ticker
                    /\ ms[k + 2 * j].message.agg_dir = "Sell" ]_vars

\* A send_messages call that found some but not all of the previous quotes
\* still open: REMOVE messages first, then the 2 * M orders.
C3_Witness ==
    /\ call.op = "send_messages"
    /\ Len(messages) = 4 * M - 1
    /\ messages[1].type = "REMOVE"
    /\ messages[2 * M - 1].type = "REMOVE"
    /\ messages[2 * M].type = "ORDER"

----------------------------------------------------------------------------
(* C4 *)

\* C4: the counter advances by one per ORDER message and by nothing else:
\* a send_messages call raises idx by exactly 2 * M and its ORDER messages
\* carry idx, idx + 1, ..., idx + 2 * M - 1 in emission order, however many
\* REMOVE messages it emits; process_trades leaves idx unchanged; and every
\* REMOVE message names an id emitted earlier in an ORDER message.
C4_CounterAdvancesPerOrder ==
    [][ /\ call'.op = "send_messages" =>
              /\ idx' = idx + 2 * M
              /\ OrderIds(messages') = [ i \in 1..(2 * M) |-> idx + i - 1 ]
              /\ \A i \in 1..Len(messages') :
                    messages'[i].type = "REMOVE" => messages'[i].message \in Range(emitted)
        /\ call'.op = "process_trades" => idx' = idx ]_vars

\* A send_messages call that emitted REMOVE messages as well as orders: idx
\* is one past the last id emitted.
C4_Witness ==
    /\ call.op = "send_messages"
    /\ timestamp_num = 2
    /\ messages[1].type = "REMOVE"
    /\ idx = emitted[Len(emitted)] + 1
    /\ Len(OfType(messages, "REMOVE")) = 2 * M

----------------------------------------------------------------------------
(* C5 *)

\* C5: for every trade process_trades handles in which the bot is the
\* aggressor and not the resting party, position[ticker] changes by exactly
\* + size when the aggressor direction is Buy and exactly - size otherwise,
\* the aggressor order id is not open afterwards, and every other open
\* order is kept.
C5_AggressorTrade ==
    [][ call'.op = "process_trades" =>
          \A i \in 1..Len(call'.trades) :
            LET t == call'.trades[i]
                b == Before(call'.trades, i)
                a == After(call'.trades, i)
            IN  AggressorOnly(t) =>
                  /\ a.position[t.ticker] =
                        b.position[t.ticker] + (IF t.agg_dir = "Buy" THEN t.size ELSE - t.size)
                  /\ t.agg_order_id \notin DOMAIN a.open_orders
                  /\ OthersKept(b.open_orders, a.open_orders, t.agg_order_id) ]_vars

\* An aggressive Buy of 3 by the bot has been processed: the position of the
\* ticker went from 0 to 3 and the aggressor order, one of the bot's quotes,
\* is no longer open while the other 2 * M - 1 are.
C5_Witness ==
    /\ call.op = "process_trades"
    /\ Len(call.trades) = 1
    /\ AggressorOnly(call.trades[1])
    /\ call.trades[1].agg_dir = "Buy"
    /\ call.trades[1].size = 3
    /\ position[call.trades[1].ticker] = 3
    /\ call.trades[1].agg_order_id \in Range(emitted)
    /\ call.trades[1].agg_order_id \notin DOMAIN open_orders
    /\ Cardinality(DOMAIN open_orders) = 2 * M - 1

----------------------------------------------------------------------------
(* C6 *)

\* C6: for every trade process_trades handles in which the bot is the
\* resting party and not the aggressor, position[ticker] changes by exactly
\* - size when the aggressor direction is Buy and exactly + size when it is
\* Sell, the resting order id is not open afterwards, and every other open
\* order is kept.
C6_RestingTrade ==
    [][ call'.op = "process_trades" =>
          \A i \in 1..Len(call'.trades) :
            LET t == call'.trades[i]
                b == Before(call'.trades, i)
                a == After(call'.trades, i)
            IN  RestingOnly(t) =>
                  /\ t.agg_dir = "Buy" =>
                        a.position[t.ticker] = b.position[t.ticker] - t.size
                  /\ t.agg_dir = "Sell" =>
                        a.position[t.ticker] = b.position[t.ticker] + t.size
                  /\ t.rest_order_id \notin DOMAIN a.open_orders
                  /\ OthersKept(b.open_orders, a.open_orders, t.rest_order_id) ]_vars

\* A trade of 3 has been processed in which the bot's resting order was hit
\* by an aggressive Sell: the position went from 0 to 3 and the resting
\* order, one of the bot's quotes, is no longer open.
C6_Witness ==
    /\ call.op = "process_trades"
    /\ Len(call.trades) = 1
    /\ RestingOnly(call.trades[1])
    /\ call.trades[1].agg_dir = "Sell"
    /\ call.trades[1].size = 3
    /\ position[call.trades[1].ticker] = 3
    /\ call.trades[1].rest_order_id \in Range(emitted)
    /\ call.trades[1].rest_order_id \notin DOMAIN open_orders
    /\ Cardinality(DOMAIN open_orders) = 2 * M - 1

----------------------------------------------------------------------------
(* C7 *)

\* The ORDER message for the given id, ticker and direction is among the
\* messages the last call returned.
Quoted(order_id, ticker, direction) ==
    \E j \in 1..Len(messages) :
        /\ messages[j].type = "ORDER"
        /\ messages[j].message.order_id = order_id
        /\ messages[j].message.ticker = ticker
        /\ messages[j].message.agg_dir = direction

\* C7: a partial fill leaves the order open.  When process_trades follows
\* a send_messages call and a trade names, in the bot's role, one of the
\* orders that call quoted (same ticker, the side the trade executes) with
\* a size smaller than the size recorded for the order, the order is still
\* in open_orders after the trade.
C7_PartialFillStaysOpen ==
    [][ (call.op = "send_messages" /\ call'.op = "process_trades") =>
          \A i \in 1..Len(call'.trades) :
            LET t == call'.trades[i]
                b == Before(call'.trades, i)
                a == After(call'.trades, i)
            IN  /\ ( /\ t.rest_bot = name
                     /\ t.rest_order_id \in DOMAIN b.open_orders
                     /\ Quoted(t.rest_order_id, t.ticker,
                               IF t.agg_dir = "Buy" THEN "Sell" ELSE "Buy")
                     /\ t.size < b.open_orders[t.rest_order_id][2] )
                   => t.rest_order_id \in DOMAIN a.open_orders
                /\ ( /\ t.agg_bot = name
                     /\ t.agg_order_id \in DOMAIN b.open_orders
                     /\ Quoted(t.agg_order_id, t.ticker, t.agg_dir)
                     /\ t.size < b.open_orders[t.agg_order_id][2] )
                   => t.agg_order_id \in DOMAIN a.open_orders ]_vars

----------------------------------------------------------------------------
(* C8 *)

\* The tick-aligned quote with no skew: the reference price less (Buy) or
\* plus (Sell) half the spread, rounded to the tick.
UnskewedBuy(book, ticker) ==
    RoundToTick(FSub(MidPrice(book, ticker), FDiv(FInt(base_spread), FInt(2))),
                mpv[ticker])
UnskewedSell(book, ticker) ==
    RoundToTick(FAdd(MidPrice(book, ticker), FDiv(FInt(base_spread), FInt(2))),
                mpv[ticker])

\* The position limit the product was constructed with is zero, negative
\* or absent.
NoPositiveLimit(product) ==
    product.pos_limit = None \/ product.pos_limit.val <= 0

\* C8: for an instrument whose position limit is zero, negative or absent,
\* send_messages quotes as if the limit were unbounded, whatever the
\* position: both prices are the unskewed tick-aligned quote and the size
\* is the base size.
C8_NoPositiveLimitIsUnbounded ==
    call.op = "send_messages" =>
        \A j \in 1..M :
            NoPositiveLimit(products[j]) =>
                /\ BuyOrder(j).price = UnskewedBuy(call.book, products[j].ticker)
                /\ SellOrder(j).price = UnskewedSell(call.book, products[j].ticker)
                /\ BuyOrder(j).size = default_order_size
                /\ SellOrder(j).size = default_order_size

----------------------------------------------------------------------------
(* C9 *)

\* 2 * |raw - price| compared with the tick, raw a fraction: the sign of
\* 2 * |raw - price| - tick.
TwiceDistanceVsTick(raw, price, tick) ==
    LET d == FSub(raw, FInt(price))
        n == Abs(d.num)
        m == Abs(d.den)
    IN  IF 2 * n < tick * m THEN -1 ELSE IF 2 * n = tick * m THEN 0 ELSE 1

\* The price is a multiple of the tick nearest to raw.
NearestMultiple(raw, price, tick) ==
    /\ price % tick = 0
    /\ TwiceDistanceVsTick(raw, price, tick) <= 0

\* raw lies exactly halfway between two multiples of the tick, price being
\* one of them.
Halfway(raw, price, tick) == TwiceDistanceVsTick(raw, price, tick) = 0

\* The raw and the emitted prices of the orders of the last send_messages
\* call, with the tick they were aligned to.
EmittedPrices ==
    { [raw |-> Quote(call.book, products[j].ticker).raw_buy,
       price |-> BuyOrder(j).price, tick |-> mpv[products[j].ticker]] : j \in 1..M }
    \cup
    { [raw |-> Quote(call.book, products[j].ticker).raw_sell,
       price |-> SellOrder(j).price, tick |-> mpv[products[j].ticker]] : j \in 1..M }

\* C9 as amended: each price send_messages emits is a multiple of the
\* instrument's tick nearest to the raw price, and a raw price exactly
\* halfway between two multiples goes to the even multiple of the tick
\* (round-half-to-even), for Buy and Sell prices alike.
C9_RoundHalfEven ==
    call.op = "send_messages" =>
        \A e \in EmittedPrices :
            /\ NearestMultiple(e.raw, e.price, e.tick)
            /\ Halfway(e.raw, e.price, e.tick) => (e.price \div e.tick) % 2 = 0

\* C9 as claimed: each price is a nearest multiple of the tick, and a raw
\* price exactly halfway between two multiples goes to the higher one.
C9_RoundHalfUp ==
    call.op = "send_messages" =>
        \A e \in EmittedPrices :
            /\ NearestMultiple(e.raw, e.price, e.tick)
            /\ Halfway(e.raw, e.price, e.tick) => FGt(FInt(e.price), e.raw)

\* A send_messages call in which a raw Sell price lay halfway between two
\* multiples of the tick and was rounded down, to the even one, and a raw
\* Buy price lay halfway and was rounded up, to the even one.
C9_Witness ==
    /\ call.op = "send_messages"
    /\ \E e \in EmittedPrices :
          Halfway(e.raw, e.price, e.tick) /\ FGt(e.raw, FInt(e.price))
    /\ \E e \in EmittedPrices :
          Halfway(e.raw, e.price, e.tick) /\ FGt(FInt(e.price), e.raw)

----------------------------------------------------------------------------
(* C10 *)

\* The reference price as the claim gives it, first matching rule.
ReferencePrice(book, ticker) ==
    LET present == ticker \in DOMAIN book
        hasBids == present /\ Len(book[ticker].Bids) > 0
        hasAsks == present /\ Len(book[ticker].Asks) > 0
    IN  CASE hasBids /\ hasAsks ->
               F(book[ticker].Bids[1].price + book[ticker].Asks[1].price, 2)
          [] hasBids /\ ~hasAsks -> FInt(book[ticker].Bids[1].price)
          [] ~hasBids /\ hasAsks -> FInt(book[ticker].Asks[1].price)
          [] OTHER -> FInt(1000 * Unit)

\* C10: the prices send_messages quotes for an instrument are those built
\* on the reference price of the claim: (best bid + best ask) / 2 from the
\* first entry of each side when both sides are there, the best bid or the
\* best ask when only that side is, and the default price 1000 when
\* neither is or the ticker is not in the book; whatever is missing, the
\* instrument gets its Buy and its Sell order.
C10_ReferencePrice ==
    call.op = "send_messages" =>
        \A j \in 1..M :
            LET ticker == products[j].ticker
                ref == ReferencePrice(call.book, ticker)
                half == F(base_spread, 2)
                skew == Skew(position[ticker], pos_limits[ticker])
            IN  /\ BuyOrder(j).ticker = ticker /\ BuyOrder(j).agg_dir = "Buy"
                /\ SellOrder(j).ticker = ticker /\ SellOrder(j).agg_dir = "Sell"
                /\ BuyOrder(j).price =
                      RoundToTick(FSub(FSub(ref, half), skew), mpv[ticker])
                /\ SellOrder(j).price =
                      RoundToTick(FSub(FAdd(ref, half), skew), mpv[ticker])

\* A send_messages call, the bot flat, on a book that shows both sides
\* (best bid 99.5 before 99, best ask 102 before 103): the mid is 100.75,
\* so the second instrument is quoted at 100 and 101.5 or 101 (tick 0.5),
\* the first at 100 and 101 (tick 0.5) or 100.25 and 101.25 (tick 0.25).
C10_Witness ==
    /\ call.op = "send_messages"
    /\ call.book # EmptyDict
    /\ position = [ t \in Tickers |-> 0 ]
    /\ \A t \in Tickers : Len(call.book[t].Bids) = 2 /\ Len(call.book[t].Asks) = 2
    /\ BuyOrder(1).price \in { 100 * Unit, 100 * Unit + Unit \div 4 }
    /\ SellOrder(1).price \in { 101 * Unit, 101 * Unit + Unit \div 4 }
    /\ BuyOrder(2).price = 100 * Unit
    /\ SellOrder(2).price \in { 101 * Unit, 102 * Unit }

----------------------------------------------------------------------------
(* C11 *)

\* The limit of the product is a finite positive number.
PositiveLimit(product) == product.pos_limit # None /\ product.pos_limit.val > 0

\* The size the claim gives for position pos under the positive limit
\* `limit` with base size B: B up to 80 % of the limit, max(1, floor(B/2))
\* above that up to 90 %, 1 above 90 %.
ClaimedSize(pos, limit, B) ==
    IF 10 * Abs(pos) <= 8 * limit THEN B
    ELSE IF 10 * Abs(pos) <= 9 * limit THEN Max({1, B \div 2})
    ELSE 1

\* C11: for an instrument with a finite positive limit, the size of the Buy
\* and of the Sell order send_messages emits is the base size when
\* |pos| <= 0.8 * limit, max(1, floor(base / 2)) when 0.8 * limit < |pos| <=
\* 0.9 * limit and 1 when |pos| > 0.9 * limit, the same for pos and -pos; it
\* is never below 1 and no position closer to flat gets a smaller size.
C11_SizePolicy ==
    call.op = "send_messages" =>
        \A j \in 1..M :
            PositiveLimit(products[j]) =>
                LET pos == position[products[j].ticker]
                    limit == products[j].pos_limit.val
                    size == BuyOrder(j).size
                IN  /\ size = ClaimedSize(pos, limit, default_order_size)
                    /\ SellOrder(j).size = size
                    /\ size = OrderSize(-pos, pos_limits[products[j].ticker])
                    /\ size >= 1
                    /\ \A p \in 0..Abs(pos) :
                          /\ OrderSize(p, pos_limits[products[j].ticker]) >= size
                          /\ OrderSize(-p, pos_limits[products[j].ticker]) >= size

\* A send_messages call at position -81 with the limits 10 and 100: the
\* first instrument is quoted with size 1, the second with size 2.
C11_Witness ==
    /\ call.op = "send_messages"
    /\ products[1].pos_limit = Num(10)
    /\ products[2].pos_limit = Num(100)
    /\ position[products[2].ticker] = -81
    /\ BuyOrder(1).size = 1
    /\ SellOrder(2).size = 2

----------------------------------------------------------------------------
(* C12 *)

\* a = b
FEq(a, b) == a.num * b.den = b.num * a.den

\* C12: for an instrument with a finite positive limit, the raw prices of
\* send_messages are buy = mid - spread/2 - skew and sell = mid + spread/2 -
\* skew with skew = (pos / limit) * skew_factor, and the emitted prices are
\* these aligned to the tick.  A long position lowers both raw prices below
\* the unskewed ones by the same amount, a short position raises both by
\* the same amount, a flat position leaves them unskewed; raw sell - raw buy
\* is the spread at every position; at pos = limit / 2 the shift is 0.25.
C12_RawPrices ==
    call.op = "send_messages" =>
        \A j \in 1..M :
            PositiveLimit(products[j]) =>
                LET ticker == products[j].ticker
                    pos == position[ticker]
                    limit == products[j].pos_limit.val
                    q == Quote(call.book, ticker)
                    mid == ReferencePrice(call.book, ticker)
                    skew == F(pos * skew_factor, limit)
                    flat_buy == FSub(mid, F(base_spread, 2))
                    flat_sell == FAdd(mid, F(base_spread, 2))
                    down == FSub(flat_buy, q.raw_buy)
                IN  /\ FEq(q.skew, skew)
                    /\ FEq(q.raw_buy, FSub(flat_buy, skew))
                    /\ FEq(q.raw_sell, FSub(flat_sell, skew))
                    /\ BuyOrder(j).price = RoundToTick(FSub(flat_buy, skew), mpv[ticker])
                    /\ SellOrder(j).price = RoundToTick(FSub(flat_sell, skew), mpv[ticker])
                    /\ FEq(FSub(q.raw_sell, q.raw_buy), FInt(base_spread))
                    /\ FEq(FSub(flat_sell, q.raw_sell), down)
                    /\ pos > 0 => FGt(down, FInt(0))
                    /\ pos < 0 => FGt(FInt(0), down)
                    /\ pos = 0 => FEq(down, FInt(0))
                    /\ 2 * pos = limit => FEq(down, F(Unit, 4))

\* A send_messages call on the empty book at position 4 under the limit 8
\* (tick 0.5): the raw prices are 999.25 and 1000.25, 0.25 below the
\* unskewed 999.5 and 1000.5, and the orders are priced 999.0 and 1000.0.
C12_Witness ==
    /\ call.op = "send_messages"
    /\ call.book = EmptyDict
    /\ products[1].pos_limit = Num(8)
    /\ position[products[1].ticker] = 4
    /\ FEq(Quote(call.book, products[1].ticker).raw_buy, F(999 * Unit + Unit \div 4, 1))
    /\ FEq(Quote(call.book, products[1].ticker).raw_sell, F(1000 * Unit + Unit \div 4, 1))
    /\ BuyOrder(1).price = 999 * Unit
    /\ SellOrder(1).price = 1000 * Unit

----------------------------------------------------------------------------
(* C13 *)

\* The bot is both the aggressor and the resting party of the trade.
SelfTrade(trade) == trade.agg_bot = name /\ trade.rest_bot = name

\* C13: for every trade process_trades handles that names the bot as
\* aggressor and as resting party, both adjustments are applied: the
\* position of the ticker is left where it was (+ size and - size), neither
\* the aggressor nor the resting order id is open afterwards, and every
\* other open order is kept.
C13_SelfTrade ==
    [][ call'.op = "process_trades" =>
          \A i \in 1..Len(call'.trades) :
            LET t == call'.trades[i]
                b == Before(call'.trades, i)
                a == After(call'.trades, i)
            IN  SelfTrade(t) =>
                  /\ a.position = b.position
                  /\ a.position[t.ticker] =
                        (b.position[t.ticker] + AggressorDelta(t)) + RestingDelta(t)
                  /\ DOMAIN a.open_orders =
                        DOMAIN b.open_orders \ {t.agg_order_id, t.rest_order_id}
                  /\ \A k \in DOMAIN a.open_orders : a.open_orders[k] = b.open_orders[k] ]_vars

\* A self-trade naming two of the bot's open quotes has been processed:
\* both ids are gone, the other 2 * M - 2 quotes are open, the bot is flat.
C13_Witness ==
    /\ call.op = "process_trades"
    /\ Len(call.trades) = 1
    /\ SelfTrade(call.trades[1])
    /\ {call.trades[1].agg_order_id, call.trades[1].rest_order_id} \subseteq Range(emitted)
    /\ call.trades[1].agg_order_id \notin DOMAIN open_orders
    /\ call.trades[1].rest_order_id \notin DOMAIN open_orders
    /\ Cardinality(DOMAIN open_orders) = 2 * M - 2
    /\ position = [ t \in Tickers |-> 0 ]

----------------------------------------------------------------------------
(* C14 *)

\* The change of position the trade brings the bot in the roles it has.
RoleDelta(t) ==
    (IF t.agg_bot = name THEN (IF t.agg_dir = "Buy" THEN t.size ELSE - t.size) ELSE 0)
    + (IF t.rest_bot = name THEN (IF t.agg_dir = "Buy" THEN - t.size ELSE t.size) ELSE 0)

\* The trade names the bot in a role, and in each role it names the bot the
\* order id of that role is not open in the ledger.
UnknownOrder(t, open) ==
    /\ t.agg_bot = name \/ t.rest_bot = name
    /\ t.agg_bot = name => t.agg_order_id \notin DOMAIN open
    /\ t.rest_bot = name => t.rest_order_id \notin DOMAIN open

\* C14: a trade that names the bot in a role with an order id that is not
\* in open_orders is handled like any other: the call completes, the trade
\* leaves open_orders exactly as it was, and the position of its ticker
\* still changes by the signed size of the role.
C14_UnknownOrderId ==
    [][ call'.op = "process_trades" =>
          \A i \in 1..Len(call'.trades) :
            LET t == call'.trades[i]
                b == Before(call'.trades, i)
                a == After(call'.trades, i)
            IN  UnknownOrder(t, b.open_orders) =>
                  /\ a.open_orders = b.open_orders
                  /\ a.position[t.ticker] = b.position[t.ticker] + RoleDelta(t)
                  /\ \A u \in Tickers \ {t.ticker} : a.position[u] = b.position[u] ]_vars

\* With its 2 * M quotes open, the bot has processed a trade of 3 that
\* names it as the resting party of an aggressive Buy under an order id it
\* never issued: all quotes are still open and the position is -3.
C14_Witness ==
    /\ call.op = "process_trades"
    /\ Len(call.trades) = 1
    /\ RestingOnly(call.trades[1])
    /\ call.trades[1].agg_dir = "Buy"
    /\ call.trades[1].rest_order_id \notin Range(emitted)
    /\ Cardinality(DOMAIN open_orders) = 2 * M
    /\ DOMAIN open_orders \subseteq Range(emitted)
    /\ position[call.trades[1].ticker] = -3

----------------------------------------------------------------------------
(* C15 *)

\* C15: only process_trades changes the position: a send_messages call,
\* whatever its book and whatever it cancels and emits, and a set_idx call
\* leave position[ticker] as it was for every instrument.
C15_PositionOnlyByTrades ==
    [][ call'.op \in {"send_messages", "set_idx"} =>
          /\ DOMAIN position' = DOMAIN position
          /\ \A t \in Tickers : position'[t] = position[t] ]_vars

\* A send_messages call made with a position of 3 or -3 settled and quotes
\* open: it cancelled them, emitted new ones, and the position is still
\* there.
C15_Witness ==
    /\ call.op = "send_messages"
    /\ nTrades = 1
    /\ messages # <<>>
    /\ messages[1].type = "REMOVE"
    /\ messages[Len(messages)].type = "ORDER"
    /\ \E t \in Tickers : Abs(position[t]) = 3

----------------------------------------------------------------------------
(* C16 *)

\* C16: in every state of a session in which set_idx(seed) was called once,
\* before the first send_messages, and send_messages and process_trades
\* calls follow in any order: every id in open_orders is the id of an ORDER
\* message emitted earlier, exactly one, with seed <= id < idx, and
\* open_orders holds at most 2 * M entries.
C16_OpenOrdersWereEmitted ==
    SeededOnceFirst =>
        /\ \A id \in DOMAIN open_orders :
              /\ Cardinality({ i \in 1..Len(emitted) : emitted[i] = id }) = 1
              /\ seeded[1].idx <= id
              /\ id < idx
        /\ Cardinality(DOMAIN open_orders) <= 2 * M

\* A seeded session after two send_messages calls and a trade that took one
\* of the second call's quotes: 2 * M - 1 orders are open, all of them from
\* the second call.
C16_Witness ==
    /\ SeededOnceFirst
    /\ call.op = "process_trades"
    /\ timestamp_num = 2
    /\ idx = seeded[1].idx + 4 * M
    /\ Cardinality(DOMAIN open_orders) = 2 * M - 1
    /\ \A id \in DOMAIN open_orders : id >= seeded[1].idx + 2 * M

----------------------------------------------------------------------------
(* C17 *)

\* The ticker, direction, price and size of the ORDER messages of a list,
\* in order.
RECURSIVE Quotes(_)
Quotes(ms) ==
    IF ms = <<>> THEN <<>>
    ELSE (IF Head(ms).type = "ORDER"
            THEN << [ticker |-> Head(ms).message.ticker, agg_dir |-> Head(ms).message.agg_dir,
                     price |-> Head(ms).message.price, size |-> Head(ms).message.size] >>
            ELSE <<>>)
         \o Quotes(Tail(ms))

\* The two quotes of a product as a function of the book, the position and
\* the product's configuration, and of nothing else.
QuoteOf(book, product, pos) ==
    LET limit == IF product.pos_limit # None THEN product.pos_limit ELSE Inf
        tick == IF Truthy(product.mpv) THEN product.mpv.val ELSE Unit
        mid == MidPrice(book, product.ticker)
        half == FDiv(FInt(base_spread), FInt(2))
        skew == Skew(pos, limit)
    IN  << [ticker |-> product.ticker, agg_dir |-> "Buy",
            price |-> RoundToTick(FSub(FSub(mid, half), skew), tick),
            size |-> OrderSize(pos, limit)],
           [ticker |-> product.ticker, agg_dir |-> "Sell",
            price |-> RoundToTick(FSub(FAdd(mid, half), skew), tick),
            size |-> OrderSize(pos, limit)] >>

\* The quotes of the products from the i-th on.
RECURSIVE QuotesOf(_, _, _, _)
QuotesOf(book, ps, pos, i) ==
    IF i > Len(ps) THEN <<>>
    ELSE QuoteOf(book, ps[i], pos[ps[i].ticker]) \o QuotesOf(book, ps, pos, i + 1)

\* C17: what send_messages quotes is determined by the book, the positions
\* and the configuration alone.  In every state the ticker, direction,
\* price and size of the ORDER messages of a send_messages call are the
\* value of one function of (book, positions, products), so two instances
\* that agree on these emit the same quotes whatever their open orders,
\* id counters and tick counters; and a send_messages call that follows
\* another with the same book, its counters and open orders having moved
\* on, emits the same quotes again.
C17_QuotesDetermined ==
    /\ [](call.op = "send_messages" =>
             Quotes(messages) = QuotesOf(call.book, products, position, 1))
    /\ [][ (call.op = "send_messages" /\ call'.op = "send_messages"
              /\ call'.book = call.book)
            => (Quotes(messages') = Quotes(messages) /\ idx' # idx
                /\ DOMAIN open_orders' # DOMAIN open_orders
                /\ timestamp_num' # timestamp_num) ]_vars

\* The second send_messages call of a session that holds a position and was
\* handed a starting id after the first call: it cancelled the first
\* call's orders and quoted what the function gives for its book.
C17_Witness ==
    /\ call.op = "send_messages"
    /\ timestamp_num = 2
    /\ Len(seeded) = 1
    /\ seeded[1].tick = 1
    /\ messages[1].type = "REMOVE"
    /\ position[products[1].ticker] = 7
    /\ call.book # EmptyDict
    /\ Len(Quotes(messages)) = 2 * M
    /\ Quotes(messages)[1].size = OrderSize(7, pos_limits[products[1].ticker])

----------------------------------------------------------------------------
(* C18 *)

\* C18: with the default spread of 1.0 and a tick not larger than the
\* spread, for every instrument, book and position the Sell price a
\* send_messages call emits is strictly greater than the Buy price it emits
\* for the same instrument: the bot quotes no locked or crossed market
\* against itself.
C18_SellAboveBuy ==
    call.op = "send_messages" =>
        \A j \in 1..M :
            mpv[products[j].ticker] <= base_spread =>
                SellOrder(j).price > BuyOrder(j).price

----------------------------------------------------------------------------
(* C19 *)

\* C19: after a send_messages call, the entry recorded in open_orders for
\* each ORDER message of the call is the direction, the size and the price
\* of that message, nothing else is recorded, and the Buy and the Sell
\* order of an instrument carry the same size.
C19_RecordedAsEmitted ==
    call.op = "send_messages" =>
        /\ \A i \in 1..Len(messages) :
              messages[i].type = "ORDER" =>
                  LET o == messages[i].message
                  IN  /\ o.order_id \in DOMAIN open_orders
                      /\ open_orders[o.order_id] = <<o.agg_dir, o.size, o.price>>
        /\ DOMAIN open_orders = Range(OrderIds(messages))
        /\ \A j \in 1..M : BuyOrder(j).size = SellOrder(j).size

\* A send_messages call at position 7 under the limit 8: the Buy order of
\* the first instrument has size 2 and is recorded with size 2 and its
\* price, below the price recorded for the Sell order.
C19_Witness ==
    /\ call.op = "send_messages"
    /\ products[1].pos_limit = Num(8)
    /\ position[products[1].ticker] = 7
    /\ BuyOrder(1).size = 2
    /\ open_orders[BuyOrder(1).order_id] = <<"Buy", 2, BuyOrder(1).price>>
    /\ open_orders[SellOrder(1).order_id][1] = "Sell"
    /\ open_orders[SellOrder(1).order_id][3] > open_orders[BuyOrder(1).order_id][3]

----------------------------------------------------------------------------
(* C20 *)

\* The bot is neither the aggressor nor the resting party of the trade.
ForeignTrade(trade) == trade.agg_bot # name /\ trade.rest_bot # name

\* C20: process_trades changes only what the bot's own trades dictate.  A
\* trade in which neither name is the bot's leaves every position and
\* open_orders as they were, even when it names open order ids; and for any
\* trade list the call adds no entry to open_orders and alters none, leaves
\* idx unchanged, and changes position only for tickers of trades in which
\* the bot has a role.
C20_ProcessTradesFrame ==
    [][ call'.op = "process_trades" =>
          /\ \A i \in 1..Len(call'.trades) :
                ForeignTrade(call'.trades[i]) =>
                    After(call'.trades, i) = Before(call'.trades, i)
          /\ DOMAIN open_orders' \subseteq DOMAIN open_orders
          /\ \A k \in DOMAIN open_orders' : open_orders'[k] = open_orders[k]
          /\ idx' = idx
          /\ DOMAIN position' = DOMAIN position
          /\ \A u \in Tickers :
                position'[u] # position[u] =>
                    \E i \in 1..Len(call'.trades) :
                        /\ call'.trades[i].ticker = u
                        /\ ~ ForeignTrade(call'.trades[i]) ]_vars

\* A trade between two other participants that names two of the bot's open
\* order ids has been processed: the 2 * M quotes are all still open and
\* the bot is flat.
C20_Witness ==
    /\ call.op = "process_trades"
    /\ Len(call.trades) = 1
    /\ ForeignTrade(call.trades[1])
    /\ call.trades[1].agg_order_id \in DOMAIN open_orders
    /\ call.trades[1].rest_order_id \in DOMAIN open_orders
    /\ Cardinality(DOMAIN open_orders) = 2 * M
    /\ position = [ t \in Tickers |-> 0 ]

====
